---- MODULE Spec2Model ----
(***************************************************************************)
(* Model of the dissemination-metrics engine of gossip-host                *)
(* (pkg/analysis/utils.go): a scanner of log lines is parsed into message  *)
(* logs, the logs are grouped by message id, every group is sorted by      *)
(* nanoTime and one Metric is computed per group (total nano time, relative*)
(* message redundancy, last delivery hop).                                 *)
(***************************************************************************)
EXTENDS Integers, Sequences, FiniteSets, TLC

VARIABLES
    input,        \* the lines the scanner yields, in order
    pos,          \* number of lines the scanner has yielded so far
    messageLogs,  \* buildMessageLogsFromScanner: messageLogs
    groups,       \* buildMetricsFromMessageLogs: messageLogsGroups
    gi,           \* index of the group the range loop of line 93 is at
    metric,       \* buildMetricsFromSortedMessageLogs: metric under construction
    metrics,      \* buildMetricsFromSortedMessageLogsGroups: metrics
    stack,        \* call stack of buildPathsForSenderID, innermost frame last
    hop,          \* calcLastDeliveryHop: where it is, and its return value
    pc,           \* where the pipeline is
    err,          \* the error buildMetricsFromScanner returns
    result,       \* the []*Metric buildMetricsFromScanner returns
    run,          \* how many times the pipeline was started on input
    prev          \* what the previous run returned

vars == <<input, pos, messageLogs, groups, gi, metric, metrics, stack, hop,
          pc, err, result, run, prev>>

----------------------------------------------------------------------------
(* Bounds of the model.                                                    *)

\* longest line stream of the specification Spec
MaxLines == 2
\* longest line stream of the specifications SpecScenario and SpecTwice
MaxScenarioLines == 3
\* longest group handed directly to calcLastDeliveryHop in SpecPaths
MaxGroup == 3
\* longest group handed directly to calcLastDeliveryHop in SpecTermination
MaxFairGroup == 2
\* frames the goroutine stack holds before the runtime aborts the program; a
\* chain of distinct hosts takes one frame for each host, and there are at most
\* four hosts
MaxDepth == 4
\* width of the integers (64 in the program), scaled down
IntBits == 12
\* times the pipeline is run on the same input
MaxRuns == 2

MinInt == -(2 ^ (IntBits - 1))
MaxInt == 2 ^ (IntBits - 1) - 1
MaxUint == 2 ^ IntBits - 1

NoErr == "nil"
ErrImproperlyFormattedLogLine == "ErrImproperlyFormattedLogLine"
ErrScanner == "scanner error"
ErrNoMessageLogs == "no message logs"
ErrOneHost == "cannot calculate RMR with one host"

----------------------------------------------------------------------------
(* Text of numbers: a sequence of characters.                              *)

DigitChars == <<"0", "1", "2", "3", "4", "5", "6", "7", "8", "9">>

IsDigit(c) == \E d \in 1..10 : DigitChars[d] = c

DigitVal(c) == (CHOOSE d \in 1..10 : DigitChars[d] = c) - 1

RECURSIVE FormatNat(_)
FormatNat(n) ==
    IF n < 10 THEN <<DigitChars[n + 1]>>
    ELSE Append(FormatNat(n \div 10), DigitChars[(n % 10) + 1])

\* strconv.FormatInt, base 10: what the hosts print into the log line
FormatInt(n) == IF n < 0 THEN <<"-">> \o FormatNat(-n) ELSE FormatNat(n)

RECURSIVE DigitsValue(_)
DigitsValue(s) ==
    IF s = <<>> THEN 0
    ELSE 10 * DigitsValue(SubSeq(s, 1, Len(s) - 1)) + DigitVal(s[Len(s)])

AllDigits(s) == s # <<>> /\ \A i \in 1..Len(s) : IsDigit(s[i])

\* strconv.ParseUint(s, 10, 64): no sign, digits only, in range
ParseUint(s) ==
    IF AllDigits(s) /\ DigitsValue(s) <= MaxUint
    THEN [ok |-> TRUE, val |-> DigitsValue(s)]
    ELSE [ok |-> FALSE, val |-> 0]

\* strconv.ParseInt(s, 10, 64) and strconv.Atoi: optional sign, digits, in range
ParseInt(s) ==
    LET signed == s # <<>> /\ s[1] \in {"-", "+"}
        body == IF signed THEN Tail(s) ELSE s
        val == IF signed /\ s[1] = "-" THEN -DigitsValue(body) ELSE DigitsValue(body)
    IN  IF AllDigits(body) /\ val >= MinInt /\ val <= MaxInt
        THEN [ok |-> TRUE, val |-> val]
        ELSE [ok |-> FALSE, val |-> 0]

----------------------------------------------------------------------------
(* Lines.  leader: whether the line contains types.LogLineLeader; data: the *)
(* line without the leader, split at the commas.                           *)

MessageLog(h, s, m, seqNo, t, seq) ==
    [hostID |-> h, senderID |-> s, messageID |-> m,
     seqNo |-> seqNo, nanoTime |-> t, seq |-> seq]

RecordLine(h, s, m, t) ==
    [leader |-> TRUE,
     data |-> <<h, s, m, FormatInt(0), FormatInt(t), FormatInt(0)>>]

IrrelevantLine == [leader |-> FALSE, data |-> <<"listening">>]
ShortLine == [leader |-> TRUE, data |-> <<"h1", "h2", "m1", <<"0">>, <<"5">>>>]
BadSeqNoLine ==
    [leader |-> TRUE, data |-> <<"h1", "h2", "m1", <<"-", "1">>, <<"5">>, <<"0">>>>]
BadNanoLine ==
    [leader |-> TRUE, data |-> <<"h1", "h2", "m1", <<"0">>, <<"x">>, <<"0">>>>]
BadSeqLine ==
    [leader |-> TRUE, data |-> <<"h1", "h2", "m1", <<"0">>, <<"5">>, <<>>>>]

OtherLines == {IrrelevantLine, ShortLine, BadSeqNoLine, BadNanoLine, BadSeqLine}

buildMessageLogFromStrings(data) ==
    LET seqNo == ParseUint(data[4])
        unixNano == ParseInt(data[5])
        seq == ParseInt(data[6])
    IN  IF ~seqNo.ok \/ ~unixNano.ok \/ ~seq.ok
        THEN [msgLog |-> <<>>, err |-> ErrImproperlyFormattedLogLine]
        ELSE [msgLog |-> <<MessageLog(data[1], data[2], data[3],
                                      seqNo.val, unixNano.val, seq.val)>>,
              err |-> NoErr]

\* parseLogLine, were a line without six fields taken for an irrelevant one
parseLogLineSkipShort(logLine) ==
    IF ~logLine.leader \/ Len(logLine.data) # 6
    THEN [msgLog |-> <<>>, err |-> NoErr]
    ELSE buildMessageLogFromStrings(logLine.data)

\* msgLog is <<>> for a nil *MessageLog and <<record>> otherwise; nil with no
\* error: the line is not relevant
parseLogLine(logLine) ==
    IF ~logLine.leader THEN [msgLog |-> <<>>, err |-> NoErr]
    ELSE IF Len(logLine.data) # 6
    THEN [msgLog |-> <<>>, err |-> ErrImproperlyFormattedLogLine]
    ELSE buildMessageLogFromStrings(logLine.data)

----------------------------------------------------------------------------
(* Metrics of one sorted group.                                            *)

Range(seq) == {seq[i] : i \in 1..Len(seq)}

\* int64 arithmetic wraps around
WrapInt(x) == ((x - MinInt) % (2 ^ IntBits)) + MinInt

\* the conversion uint64(x) of an int64
ToUint(x) == x % (2 ^ IntBits)

\* calcTotalNanoTime with the operands of the subtraction swapped
calcTotalNanoTimeSwapped(sortedMessageLogs) ==
    ToUint(WrapInt(sortedMessageLogs[1].nanoTime
                   - sortedMessageLogs[Len(sortedMessageLogs)].nanoTime))

calcTotalNanoTime(sortedMessageLogs) ==
    ToUint(WrapInt(sortedMessageLogs[Len(sortedMessageLogs)].nanoTime
                   - sortedMessageLogs[1].nanoTime))

countUniqueHosts(sortedMessageLogs) ==
    Cardinality({msg.hostID : msg \in Range(sortedMessageLogs)}
                \cup {msg.senderID : msg \in Range(sortedMessageLogs)})

RECURSIVE Gcd(_, _)
Gcd(a, b) == IF b = 0 THEN a ELSE Gcd(b, a % b)

\* The float32 n/d - 1.0 for n > 0, d >= 0, as the fraction in lowest terms;
\* den = 0 stands for +Inf (n/0 is +Inf, and +Inf - 1.0 is +Inf).
PosInf == [num |-> 1, den |-> 0]

FloatDivMinusOne(n, d) ==
    IF d = 0 THEN PosInf
    ELSE [num |-> (n - d) \div Gcd(n, d), den |-> d \div Gcd(n, d)]

calcRMR(sortedMessageLogs) ==
    LET uniqueHosts == countUniqueHosts(sortedMessageLogs)
    IN  IF uniqueHosts = 0
        THEN [rmr |-> [num |-> 0, den |-> 1], err |-> ErrOneHost]
        ELSE [rmr |-> FloatDivMinusOne(Len(sortedMessageLogs), uniqueHosts - 1),
              err |-> NoErr]

\* the keys of m[senderID], m being the map of lines 143-150
Recipients(sortedMessageLogs, senderID) ==
    {msg.hostID : msg \in {x \in Range(sortedMessageLogs) : x.senderID = senderID}}

prependString(s, arr) == <<s>> \o arr

\* NewFrame, were a host without recipients to return the path of itself alone
NewFrameLeafPath(senderID, sortedMessageLogs) ==
    [senderID |-> senderID,
     todo |-> Recipients(sortedMessageLogs, senderID),
     ret |-> IF Recipients(sortedMessageLogs, senderID) = {}
             THEN <<<<senderID>>>> ELSE <<>>]

\* NewFrame, were the range loop to skip the sender itself
NewFrameSkipSelf(senderID, sortedMessageLogs) ==
    [senderID |-> senderID,
     todo |-> Recipients(sortedMessageLogs, senderID) \ {senderID},
     ret |-> <<>>]

\* a call of buildPathsForSenderID: ret is empty, the range loop has all of
\* m[senderID] to go through
NewFrame(senderID, sortedMessageLogs) ==
    [senderID |-> senderID,
     todo |-> Recipients(sortedMessageLogs, senderID),
     ret |-> <<>>]

RECURSIVE MaxLen(_)
\* the loop of lines 159-162, as a uint
MaxLen(paths) ==
    IF paths = <<>> THEN 0
    ELSE LET rest == MaxLen(Tail(paths))
         IN  IF Len(Head(paths)) > rest THEN Len(Head(paths)) ELSE rest

----------------------------------------------------------------------------
(* Grouping and sorting.                                                   *)

MessageIDs(logs) == {msg.messageID : msg \in Range(logs)}

SameID(logs, id) == SelectSeq(logs, LAMBDA msg : msg.messageID = id)

\* every order in which the range of line 208 can go through the map's keys
KeyOrders(logs) ==
    {o \in [1..Cardinality(MessageIDs(logs)) -> MessageIDs(logs)] :
        \A i, j \in DOMAIN o : i # j => o[i] # o[j]}

\* groupMessageLogsByID, were a record to replace its group instead of being
\* appended to it
LastOfID(logs, id) ==
    LET same == SameID(logs, id) IN <<same[Len(same)]>>

groupMessageLogsByIDOverwrite(logs, order) ==
    [i \in 1..Len(order) |-> LastOfID(logs, order[i])]

\* order: the order in which the map's keys are ranged over
groupMessageLogsByID(logs, order) ==
    [i \in 1..Len(order) |-> SameID(logs, order[i])]

IsSorted(logs) ==
    \A i \in 1..Len(logs) - 1 : ~(logs[i + 1].nanoTime < logs[i].nanoTime)

\* sorter.By(less).Sort(logs): logs rearranged so that less never holds of a
\* record and one before it; records that tie may end in any order
Sorted(logs) ==
    {[i \in 1..Len(logs) |-> logs[p[i]]] : p \in
        {q \in Permutations(1..Len(logs)) :
            IsSorted([i \in 1..Len(logs) |-> logs[q[i]]])}}

sortMessageLogs(messageLogsGroups) ==
    {gs \in [1..Len(messageLogsGroups) -> UNION {Sorted(g) : g \in Range(messageLogsGroups)}] :
        \A i \in 1..Len(messageLogsGroups) : gs[i] \in Sorted(messageLogsGroups[i])}

----------------------------------------------------------------------------
(* The state on entry to buildMetricsFromScanner.                          *)

ZeroMetric ==
    [totalNanoTime |-> 0,
     relativeMessageRedundancy |-> [num |-> 0, den |-> 1],
     lastDeliveryHop |-> 0]

HopIdle == [pc |-> "idle", lastDeliveryHop |-> 0]

NoPrev == [err |-> NoErr, result |-> <<>>]

Seqs(S, n) == UNION {[1..k -> S] : k \in 0..n}

Entry ==
    /\ pos = 0
    /\ messageLogs = <<>>
    /\ groups = <<>>
    /\ gi = 1
    /\ metric = ZeroMetric
    /\ metrics = <<>>
    /\ stack = <<>>
    /\ hop = HopIdle
    /\ pc = "scan"
    /\ err = NoErr
    /\ result = <<>>

----------------------------------------------------------------------------
(* buildMessageLogsFromScanner                                             *)

\* one turn of the loop of lines 41-55
ScanLine ==
    /\ pc = "scan"
    /\ pos < Len(input)
    /\ pos' = pos + 1
    /\ LET parsed == parseLogLine(input[pos + 1])
       IN  IF parsed.err # NoErr
           THEN /\ pc' = "done"
                /\ err' = parsed.err
                /\ result' = <<>>
                /\ messageLogs' = <<>>
           ELSE /\ messageLogs' = messageLogs \o parsed.msgLog
                /\ UNCHANGED <<pc, err, result>>
    /\ UNCHANGED <<input, groups, gi, metric, metrics, stack, hop, run, prev>>

\* scanner.Scan() returns false and scanner.Err() is not nil (lines 57-60): the
\* reader failed, or the line is longer than the scanner's buffer
ScannerFails ==
    /\ pc = "scan"
    /\ pc' = "done"
    /\ err' = ErrScanner
    /\ result' = <<>>
    /\ messageLogs' = <<>>
    /\ UNCHANGED <<input, pos, groups, gi, metric, metrics, stack, hop, run, prev>>

\* scanner.Scan() returns false at the end of the stream; line 62 and line 33
ScanEnd ==
    /\ pc = "scan"
    /\ pos = Len(input)
    /\ pc' = "group"
    /\ UNCHANGED <<input, pos, messageLogs, groups, gi, metric, metrics, stack,
                   hop, err, result, run, prev>>

----------------------------------------------------------------------------
(* buildMetricsFromMessageLogs                                             *)

\* line 84
Group ==
    /\ pc = "group"
    /\ \E order \in KeyOrders(messageLogs) :
          groups' = groupMessageLogsByID(messageLogs, order)
    /\ pc' = "sort"
    /\ UNCHANGED <<input, pos, messageLogs, gi, metric, metrics, stack, hop,
                   err, result, run, prev>>

\* line 86, and the entry of buildMetricsFromSortedMessageLogsGroups
Sort ==
    /\ pc = "sort"
    /\ groups' \in sortMessageLogs(groups)
    /\ gi' = 1
    /\ metrics' = <<>>
    /\ pc' = "metrics"
    /\ UNCHANGED <<input, pos, messageLogs, metric, stack, hop, err, result,
                   run, prev>>

\* lines 93-94 and 106-121: the loop takes the next group, and
\* buildMetricsFromSortedMessageLogs runs up to the call of calcLastDeliveryHop
StartMetric ==
    /\ pc = "metrics"
    /\ gi <= Len(groups)
    /\ LET sortedMessageLogs == groups[gi]
           rmr == calcRMR(sortedMessageLogs)
       IN  IF Len(sortedMessageLogs) = 0
           THEN /\ pc' = "done"
                /\ err' = ErrNoMessageLogs
                /\ result' = <<>>
                /\ UNCHANGED metric
           ELSE IF rmr.err # NoErr
           THEN /\ pc' = "done"
                /\ err' = rmr.err
                /\ result' = <<>>
                /\ metric' = [ZeroMetric EXCEPT
                                !.totalNanoTime = calcTotalNanoTime(sortedMessageLogs)]
           ELSE /\ pc' = "metric"
                /\ metric' = [ZeroMetric EXCEPT
                                !.totalNanoTime = calcTotalNanoTime(sortedMessageLogs),
                                !.relativeMessageRedundancy = rmr.rmr]
                /\ UNCHANGED <<err, result>>
    /\ UNCHANGED <<input, pos, messageLogs, groups, gi, metrics, stack, hop,
                   run, prev>>

\* lines 143-156: calcLastDeliveryHop calls buildPathsForSenderID for the
\* senderID of the group's first record
BeginLastDeliveryHop ==
    /\ pc \in {"metric", "calcLastDeliveryHop"}
    /\ hop.pc = "idle"
    /\ stack' = <<NewFrame(groups[gi][1].senderID, groups[gi])>>
    /\ hop' = [pc |-> "running", lastDeliveryHop |-> 0]
    /\ UNCHANGED <<input, pos, messageLogs, groups, gi, metric, metrics, pc,
                   err, result, run, prev>>

\* lines 172-173: the range loop takes a recipient, in any order, and calls
\* buildPathsForSenderID for it
CallBuildPaths ==
    /\ hop.pc = "running"
    /\ Len(stack) < MaxDepth
    /\ \E recipient \in stack[Len(stack)].todo :
          stack' = Append([stack EXCEPT ![Len(stack)].todo = @ \ {recipient}],
                          NewFrame(recipient, groups[gi]))
    /\ UNCHANGED <<input, pos, messageLogs, groups, gi, metric, metrics, hop,
                   pc, err, result, run, prev>>

\* line 173 with no stack left for the call: the runtime ends the program
StackOverflow ==
    /\ hop.pc = "running"
    /\ Len(stack) = MaxDepth
    /\ stack[Len(stack)].todo # {}
    /\ hop' = [hop EXCEPT !.pc = "overflow"]
    /\ UNCHANGED <<input, pos, messageLogs, groups, gi, metric, metrics, stack,
                   pc, err, result, run, prev>>

\* line 180, and lines 174-177 in the caller
ReturnBuildPaths ==
    /\ hop.pc = "running"
    /\ Len(stack) > 1
    /\ stack[Len(stack)].todo = {}
    /\ LET paths == stack[Len(stack)].ret
           caller == stack[Len(stack) - 1]
       IN  stack' = [SubSeq(stack, 1, Len(stack) - 1) EXCEPT
                       ![Len(stack) - 1].ret =
                           @ \o [i \in 1..Len(paths) |->
                                    prependString(caller.senderID, paths[i])]]
    /\ UNCHANGED <<input, pos, messageLogs, groups, gi, metric, metrics, hop,
                   pc, err, result, run, prev>>

\* the outermost call returns (line 156); lines 158-164
FinishLastDeliveryHop ==
    /\ hop.pc = "running"
    /\ Len(stack) = 1
    /\ stack[1].todo = {}
    /\ hop' = [pc |-> "returned", lastDeliveryHop |-> MaxLen(stack[1].ret)]
    /\ stack' = <<>>
    /\ UNCHANGED <<input, pos, messageLogs, groups, gi, metric, metrics, pc,
                   err, result, run, prev>>

\* FinishMetric, were the Metric to replace metrics instead of being appended
FinishMetricOverwrite ==
    /\ pc = "metric"
    /\ hop.pc = "returned"
    /\ metrics' = <<[metric EXCEPT !.lastDeliveryHop = hop.lastDeliveryHop]>>
    /\ gi' = gi + 1
    /\ hop' = HopIdle
    /\ metric' = ZeroMetric
    /\ pc' = "metrics"
    /\ UNCHANGED <<input, pos, messageLogs, groups, stack, err, result, run, prev>>

\* lines 122-124 and line 100
FinishMetric ==
    /\ pc = "metric"
    /\ hop.pc = "returned"
    /\ metrics' = Append(metrics,
                         [metric EXCEPT !.lastDeliveryHop = hop.lastDeliveryHop])
    /\ gi' = gi + 1
    /\ hop' = HopIdle
    /\ metric' = ZeroMetric
    /\ pc' = "metrics"
    /\ UNCHANGED <<input, pos, messageLogs, groups, stack, err, result, run, prev>>

\* line 103: the loop is over
ReturnMetrics ==
    /\ pc = "metrics"
    /\ gi > Len(groups)
    /\ pc' = "done"
    /\ err' = NoErr
    /\ result' = metrics
    /\ UNCHANGED <<input, pos, messageLogs, groups, gi, metric, metrics, stack,
                   hop, run, prev>>

\* the caller runs the pipeline again on the same lines
Restart ==
    /\ pc = "done"
    /\ run < MaxRuns
    /\ run' = run + 1
    /\ prev' = [err |-> err, result |-> result]
    /\ pos' = 0
    /\ messageLogs' = <<>>
    /\ groups' = <<>>
    /\ gi' = 1
    /\ metric' = ZeroMetric
    /\ metrics' = <<>>
    /\ stack' = <<>>
    /\ hop' = HopIdle
    /\ pc' = "scan"
    /\ err' = NoErr
    /\ result' = <<>>
    /\ UNCHANGED input

----------------------------------------------------------------------------
(* Specifications.                                                         *)

Hosts == {"h1", "h2"}
MessageIDs2 == {"m1", "m2"}
Times == {MinInt, 2000}

Lines == {RecordLine(h, s, m, t) : h \in Hosts, s \in Hosts,
                                   m \in MessageIDs2, t \in Times}
         \cup OtherLines

Init ==
    /\ input \in Seqs(Lines, MaxLines)
    /\ Entry
    /\ run = 1
    /\ prev = NoPrev

PathsNext ==
    \/ BeginLastDeliveryHop
    \/ CallBuildPaths
    \/ StackOverflow
    \/ ReturnBuildPaths
    \/ FinishLastDeliveryHop

Next ==
    \/ ScanLine
    \/ ScannerFails
    \/ ScanEnd
    \/ Group
    \/ Sort
    \/ StartMetric
    \/ BeginLastDeliveryHop
    \/ CallBuildPaths
    \/ StackOverflow
    \/ ReturnBuildPaths
    \/ FinishLastDeliveryHop
    \/ FinishMetric
    \/ ReturnMetrics

\* the pipeline, run once on every stream of at most MaxLines lines
Spec == Init /\ [][Next]_vars

NextTwice ==
    \/ Next
    \/ Restart

InitTwice ==
    /\ input \in Seqs(Lines, MaxScenarioLines)
    /\ Entry
    /\ run = 1
    /\ prev = NoPrev

\* the pipeline, run MaxRuns times on the same stream
SpecTwice == InitTwice /\ [][NextTwice]_vars

ScenarioHosts == {"h1", "h2", "h3"}
ScenarioTimes == {500, 1000, 2000}

ScenarioLines ==
    {RecordLine(h, s, "m1", t) : h \in ScenarioHosts, s \in ScenarioHosts,
                                 t \in ScenarioTimes}
    \cup OtherLines

InitScenario ==
    /\ input \in Seqs(ScenarioLines, MaxScenarioLines)
    /\ Entry
    /\ run = 1
    /\ prev = NoPrev

\* the pipeline, run once on the streams of one message among three hosts
SpecScenario == InitScenario /\ [][Next]_vars

PathHosts == {"A", "B", "C", "D"}

\* calcLastDeliveryHop reads no nanoTime: the i-th record of a sorted group
\* carries the i-th of a series of increasing times
SortedGroups(n) ==
    {[i \in DOMAIN e |-> MessageLog(e[i][1], e[i][2], "m1", 0, 500 * i, 0)] :
        e \in Seqs(PathHosts \X PathHosts, n) \ {<<>>}}

\* calcLastDeliveryHop is called on sortedMessageLogs
EntryPaths(sortedMessageLogs) ==
    /\ groups = <<sortedMessageLogs>>
    /\ gi = 1
    /\ pc = "calcLastDeliveryHop"
    /\ input = <<>>
    /\ pos = 0
    /\ messageLogs = <<>>
    /\ metric = ZeroMetric
    /\ metrics = <<>>
    /\ stack = <<>>
    /\ hop = HopIdle
    /\ err = NoErr
    /\ result = <<>>
    /\ run = 1
    /\ prev = NoPrev

InitPaths == \E g \in SortedGroups(MaxGroup) : EntryPaths(g)

\* calcLastDeliveryHop, called on every sorted group of at most MaxGroup records
SpecPaths == InitPaths /\ [][PathsNext]_vars

InitTermination == \E g \in SortedGroups(MaxFairGroup) : EntryPaths(g)

\* calcLastDeliveryHop, called on every sorted group of at most MaxFairGroup
\* records; the program is sequential and runs on until it returns or dies
SpecTermination == InitTermination /\ [][PathsNext]_vars /\ WF_vars(PathsNext)

----------------------------------------------------------------------------
(* Vocabulary of the properties.                                           *)

Edges(logs) == {<<msg.senderID, msg.hostID>> : msg \in Range(logs)}

Successors(E, S) == {e[2] : e \in {x \in E : x[1] \in S}}

RECURSIVE Closure(_, _)
Closure(E, S) ==
    IF Successors(E, S) \subseteq S THEN S ELSE Closure(E, S \cup Successors(E, S))

\* the hosts a chain of one or more edges leads to from host n
ReachedFrom(E, n) == Closure(E, Successors(E, {n}))

OnCycle(E, n) == n \in ReachedFrom(E, n)

\* a cycle of the group's edges can be reached from the originator
CycleReachable(logs) ==
    \E n \in {logs[1].senderID} \cup ReachedFrom(Edges(logs), logs[1].senderID) :
        OnCycle(Edges(logs), n)

Acyclic(logs) == \A e \in Edges(logs) : ~OnCycle(Edges(logs), e[1])

SetMax(S) == CHOOSE x \in S : \A y \in S : y <= x
SetMin(S) == CHOOSE x \in S : \A y \in S : x <= y

\* the nanoTimes of the records read with messageID id
TimesOfID(id) == {msg.nanoTime : msg \in {x \in Range(messageLogs) : x.messageID = id}}

\* the largest minus the smallest nanoTime read with the messageID of logs
TimeSpan(logs) ==
    SetMax(TimesOfID(logs[1].messageID)) - SetMin(TimesOfID(logs[1].messageID))

Count(seq, x) == Cardinality({i \in DOMAIN seq : seq[i] = x})

RECURSIVE SumCounts(_, _)
SumCounts(gs, x) ==
    IF gs = <<>> THEN 0 ELSE Count(Head(gs), x) + SumCounts(Tail(gs), x)

\* a relevant line that has not six fields, or a number that does not parse
Malformed(line) ==
    /\ line.leader
    /\ \/ Len(line.data) # 6
       \/ ~ParseUint(line.data[4]).ok
       \/ ~ParseInt(line.data[5]).ok
       \/ ~ParseInt(line.data[6]).ok

\* the message ids of the relevant lines of the stream
ObservedMessageIDs ==
    {input[i].data[3] : i \in {j \in DOMAIN input : input[j].leader}}

ChainGroup ==
    <<MessageLog("B", "A", "m1", 0, 500, 0),
      MessageLog("C", "B", "m1", 0, 1000, 0),
      MessageLog("D", "C", "m1", 0, 1500, 0)>>

ScenarioInput ==
    <<RecordLine("h2", "h1", "m1", 1000),
      RecordLine("h3", "h2", "m1", 2000),
      RecordLine("h1", "h1", "m1", 500)>>

----------------------------------------------------------------------------
(* Properties.                                                             *)

\* C1: for the group that is the single chain A->B->C->D, with increasing
\* nanoTime and no other record, calcLastDeliveryHop returns 3.
C1_ChainHopIsThree ==
    (/\ pc = "calcLastDeliveryHop"
     /\ groups[1] = ChainGroup
     /\ hop.pc = "returned") => hop.lastDeliveryHop = 3

\* C2: when calcRMR has been applied to a group with at most one unique host,
\* it has returned an error and no RMR value, and the pipeline has stopped
\* with that error instead of going on with the group's Metric.
C2_OneHostIsAnError ==
    (/\ pc \in {"metric", "done"}
     /\ gi <= Len(groups)
     /\ countUniqueHosts(groups[gi]) <= 1)
    => (/\ pc = "done"
        /\ err = ErrOneHost
        /\ result = <<>>
        /\ metric.relativeMessageRedundancy = ZeroMetric.relativeMessageRedundancy)

\* C3: two runs of the pipeline on the same lines that both succeed return the
\* same sequence of Metrics, in the same order.
C3_SameOutputTwice ==
    (/\ run = 2
     /\ pc = "done"
     /\ err = NoErr
     /\ prev.err = NoErr) => result = prev.result

\* C4: on the three lines of the end-to-end scenario the pipeline does not
\* die; it returns, without an error, exactly one Metric, with totalNanoTime
\* 1500, computed over 3 unique hosts.
C4_ScenarioMetric ==
    input = ScenarioInput
    => (/\ hop.pc # "overflow"
        /\ pc = "done" => (/\ err = NoErr
                           /\ Len(result) = 1
                           /\ result[1].totalNanoTime = 1500
                           /\ countUniqueHosts(groups[1]) = 3))

\* C5: when a stage fails, buildMetricsFromScanner returns the error and a nil
\* result.  A stream with a malformed relevant line, at any position, is never
\* processed to a successful end, and a parse error returned is that of the
\* line the scanner is at.
C5_NoPartialResults ==
    pc = "done"
    => (/\ err # NoErr => result = <<>>
        /\ (\E i \in DOMAIN input : Malformed(input[i])) => err # NoErr
        /\ err = ErrImproperlyFormattedLogLine => Malformed(input[pos]))

C5_Witness ==
    /\ pc = "done"
    /\ err = ErrImproperlyFormattedLogLine
    /\ result = <<>>
    /\ pos = 2
    /\ input[1] = RecordLine("h2", "h1", "m1", 2000)
    /\ input[2] = BadNanoLine

\* C6: the groups groupMessageLogsByID returns partition its input: no group
\* is empty, the records of a group share one messageID, no two groups share
\* a messageID, and every record occurs in the groups as often as in the input
\* and in one group only.
C6_GroupsPartitionInput ==
    pc = "sort"
    => (/\ \A i \in DOMAIN groups :
              /\ groups[i] # <<>>
              /\ \A k \in DOMAIN groups[i] :
                    groups[i][k].messageID = groups[i][1].messageID
        /\ \A i, j \in DOMAIN groups :
              i # j => groups[i][1].messageID # groups[j][1].messageID
        /\ \A i \in DOMAIN groups : Range(groups[i]) \subseteq Range(messageLogs)
        /\ \A x \in Range(messageLogs) :
              /\ SumCounts(groups, x) = Count(messageLogs, x)
              /\ Cardinality({i \in DOMAIN groups : x \in Range(groups[i])}) = 1)

C6_Witness ==
    /\ pc = "sort"
    /\ Len(messageLogs) = 2
    /\ messageLogs[1] = messageLogs[2]
    /\ Len(groups) = 1
    /\ Len(groups[1]) = 2

\* C7: on success the pipeline returns as many Metrics as there are distinct
\* messageIDs in the records of the stream.
C7_OneMetricPerMessageID ==
    (pc = "done" /\ err = NoErr) => Len(result) = Cardinality(ObservedMessageIDs)

C7_Witness ==
    /\ pc = "done"
    /\ err = NoErr
    /\ Len(messageLogs) = 2
    /\ Len(result) = 2

\* C8: after sortMessageLogs every group is non-decreasing in nanoTime, and
\* the totalNanoTime of a group's Metric is the largest minus the smallest
\* nanoTime of the records read with the group's messageID.
C8_SortedAndTotalNanoTime ==
    pc \in {"metrics", "metric", "done"}
    => (/\ \A i \in DOMAIN groups : IsSorted(groups[i])
        /\ \A i \in DOMAIN metrics :
              metrics[i].totalNanoTime = TimeSpan(groups[i])
        /\ pc = "metric" => metric.totalNanoTime = TimeSpan(groups[gi])
        /\ (pc = "done" /\ err = NoErr) => result = metrics)

C8_Witness ==
    /\ pc = "done"
    /\ err = NoErr
    /\ Len(messageLogs) = 2
    /\ messageLogs[1].nanoTime = 2000
    /\ messageLogs[2].nanoTime = MinInt
    /\ Len(result) = 1
    /\ result[1].totalNanoTime = 2000 - MinInt

\* C9: the enumeration of paths that calcLastDeliveryHop starts at the
\* originator returns when no cycle of the edges can be reached from the
\* originator, and never returns when one can.
C9_ReturnsIffNoCycle ==
    /\ [](CycleReachable(groups[1]) => hop.pc # "returned")
    /\ (~CycleReachable(groups[1])) ~> (hop.pc = "returned")

C9_Witness ==
    /\ hop.pc = "overflow"
    /\ groups[1][1].senderID # groups[1][1].hostID
    /\ Len(groups[1]) = 2
    /\ groups[1][2].senderID = groups[1][1].hostID
    /\ groups[1][2].hostID = groups[1][2].senderID

====
